---- MODULE Spec2Model ----
(***************************************************************************)
(* Model of newrelic_lambda_cli/cli/integrations.py: the three click       *)
(* commands install, uninstall and update.  One behaviour is one command   *)
(* invocation.  Every remote call (of api, integrations or permissions)    *)
(* is a synchronous step whose outcome is chosen by the environment: a     *)
(* returned value or a raised exception.  `calls` is the history of the    *)
(* calls issued, `rets` what each returned, `prompts` the click.confirm    *)
(* prompts shown together with the user's answers.                         *)
(***************************************************************************)
EXTENDS Integers, Sequences, FiniteSets, TLC

VARIABLES cmd, cfg, pc, calls, rets, prompts, role, install_success,
          update_success, uninstall_integration, passed_enable_logs,
          linkExists, ingest_logs, term, output

vars == <<cmd, cfg, pc, calls, rets, prompts, role, install_success,
          update_success, uninstall_integration, passed_enable_logs,
          linkExists, ingest_logs, term, output>>

\* Largest New Relic account id the environment supplies (click.INT).
MaxAccountId == 1

AccountIds == 0..MaxAccountId

\* An optional value is a sequence of length at most one: <<>> is None.
None == <<>>

Commands == {"install", "uninstall", "update"}

Ops == {"ensure_integration_install_permissions",
        "ensure_integration_uninstall_permissions",
        "validate_gql_credentials", "retrieve_license_key",
        "get_aws_account_id", "validate_linked_account",
        "create_integration_role", "install_license_key",
        "create_integration_account", "enable_lambda_integration",
        "install_log_ingestion", "remove_integration_role",
        "remove_log_ingestion_function", "remove_license_key",
        "update_log_ingestion", "auto_install_license_key"}

\* Calls that create, change or remove a remote resource.
MutatingOps == {"create_integration_role", "install_license_key",
                "create_integration_account", "enable_lambda_integration",
                "install_log_ingestion", "remove_integration_role",
                "remove_log_ingestion_function", "remove_license_key",
                "update_log_ingestion", "auto_install_license_key"}

\* Values a boolean-success operation can return.
RetVals == {"True", "False", "None"}

\* Values create_integration_role can return: a role reference or None.
RoleVals == {"Role", "None"}

\* Python truthiness of a returned value.
Truthy(v) == v \in {"True", "Role", "Ok"}

\* Python `a and b`: a when a is falsy, else b.
PyAnd(a, b) == IF Truthy(a) THEN b ELSE a

\* Python truthiness of an optional integer (None and 0 are falsy).
TruthyOpt(a) == a # None /\ a[1] # 0

Called(op) == \E i \in 1..Len(calls) : calls[i] = op

Count(op) == Cardinality({i \in 1..Len(calls) : calls[i] = op})

Prompted(q) == \E i \in 1..Len(prompts) : prompts[i].q = q

Declined(q) == \E i \in 1..Len(prompts) : prompts[i].q = q /\ ~prompts[i].a

Confirmed(q) == \E i \in 1..Len(prompts) : prompts[i].q = q /\ prompts[i].a

InstallCfgs ==
  [aws_permissions_check : BOOLEAN, enable_license_key_secret : BOOLEAN,
   linked_account_name : BOOLEAN, integration_arn : BOOLEAN,
   nr_account_id : {<<a>> : a \in AccountIds}, force : {FALSE},
   enable_logs : {"True", "False"}, VERBOSE : BOOLEAN]

UninstallCfgs ==
  [aws_permissions_check : BOOLEAN, enable_license_key_secret : {TRUE},
   linked_account_name : {FALSE}, integration_arn : {FALSE},
   nr_account_id : {None} \cup {<<a>> : a \in AccountIds}, force : BOOLEAN,
   enable_logs : {"False"}, VERBOSE : {FALSE}]

UpdateCfgs ==
  [aws_permissions_check : BOOLEAN, enable_license_key_secret : BOOLEAN,
   linked_account_name : {FALSE}, integration_arn : {FALSE},
   nr_account_id : {None}, force : {FALSE},
   enable_logs : {"None", "True", "False"}, VERBOSE : {FALSE}]

CfgsOf(c) == IF c = "install" THEN InstallCfgs
             ELSE IF c = "uninstall" THEN UninstallCfgs ELSE UpdateCfgs

\* Log-forwarding setting of the newrelic-log-ingestion function before the
\* command runs: none before install, on or off before update.
LogSettingsOf(c) == IF c = "install" THEN {"absent"}
                    ELSE IF c = "update" THEN {"True", "False"} ELSE {"True"}

\* What install_log_ingestion / update_log_ingestion do to the function's
\* log-forwarding setting: a call that succeeds sets it to the toggle it is
\* given, and leaves it as it is when the toggle is None.
LogIngestionEffect(cur, arg, r) ==
  [cur EXCEPT !.now = IF Truthy(r) /\ arg # "None" THEN arg ELSE cur.now]

Init ==
  /\ cmd \in Commands
  /\ cfg \in CfgsOf(cmd)
  /\ pc = "perm"
  /\ calls = <<>>
  /\ rets = [op \in Ops |-> "unset"]
  /\ prompts = <<>>
  /\ role = "unset"
  /\ install_success = "unset"
  /\ update_success = "unset"
  /\ uninstall_integration = "unset"
  /\ passed_enable_logs = "unset"
  /\ linkExists \in (IF cmd = "install" THEN BOOLEAN ELSE {FALSE})
  /\ ingest_logs \in [before : LogSettingsOf(cmd), now : LogSettingsOf(cmd)]
  /\ ingest_logs.now = ingest_logs.before
  /\ term = "running"
  /\ output = <<>>

\* A remote call is issued and returns (or raises) r.
Call(op, r) ==
  /\ calls' = Append(calls, op)
  /\ rets' = [rets EXCEPT ![op] = r]

\* An exception nobody catches: the command ends where it is.
Raised == pc' = "exit" /\ term' = "raised"

\* click.confirm shows prompt q and reads answer a.
Confirm(q, a) == prompts' = Append(prompts, [q |-> q, a |-> a])

----
\* install

\* Mutant: the permission pre-check runs whatever the flag says.
InstallPermissions_IgnoreFlag ==
  /\ cmd = "install" /\ pc = "perm"
  /\ \E r \in {"Ok", "raise"} :
       /\ Call("ensure_integration_install_permissions", r)
       /\ IF r = "raise" THEN Raised
          ELSE pc' = "validate" /\ term' = term
  /\ UNCHANGED <<cmd, cfg, prompts, role, install_success, update_success,
                 uninstall_integration, passed_enable_logs, linkExists,
                 ingest_logs, output>>

InstallPermissions ==
  /\ cmd = "install" /\ pc = "perm"
  /\ IF cfg.aws_permissions_check
     THEN \E r \in {"Ok", "raise"} :
            /\ Call("ensure_integration_install_permissions", r)
            /\ IF r = "raise" THEN Raised
               ELSE pc' = "validate" /\ term' = term
     ELSE pc' = "validate" /\ UNCHANGED <<calls, rets, term>>
  /\ UNCHANGED <<cmd, cfg, prompts, role, install_success, update_success,
                 uninstall_integration, passed_enable_logs, linkExists,
                 ingest_logs,
                 output>>

\* Mutant: a failed credential validation is swallowed and the run goes on.
InstallValidateCredentials_Swallow ==
  /\ cmd = "install" /\ pc = "validate"
  /\ \E r \in {"Ok", "raise"} :
       /\ Call("validate_gql_credentials", r)
       /\ pc' = "license" /\ term' = term
  /\ UNCHANGED <<cmd, cfg, prompts, role, install_success, update_success,
                 uninstall_integration, passed_enable_logs, linkExists,
                 ingest_logs,
                 output>>

InstallValidateCredentials ==
  /\ cmd = "install" /\ pc = "validate"
  /\ \E r \in {"Ok", "raise"} :
       /\ Call("validate_gql_credentials", r)
       /\ IF r = "raise" THEN Raised
          ELSE pc' = "license" /\ term' = term
  /\ UNCHANGED <<cmd, cfg, prompts, role, install_success, update_success,
                 uninstall_integration, passed_enable_logs, linkExists,
                 ingest_logs,
                 output>>

InstallRetrieveLicenseKey ==
  /\ cmd = "install" /\ pc = "license"
  /\ \E r \in {"Ok", "raise"} :
       /\ Call("retrieve_license_key", r)
       /\ IF r = "raise" THEN Raised
          ELSE pc' = "name" /\ term' = term
  /\ UNCHANGED <<cmd, cfg, prompts, role, install_success, update_success,
                 uninstall_integration, passed_enable_logs, linkExists,
                 ingest_logs,
                 output>>

InstallLinkedAccountName ==
  /\ cmd = "install" /\ pc = "name"
  /\ IF ~cfg.linked_account_name
     THEN \E r \in {"Ok", "raise"} :
            /\ Call("get_aws_account_id", r)
            /\ IF r = "raise" THEN Raised
               ELSE pc' = "check_link" /\ term' = term
     ELSE pc' = "check_link" /\ UNCHANGED <<calls, rets, term>>
  /\ UNCHANGED <<cmd, cfg, prompts, role, install_success, update_success,
                 uninstall_integration, passed_enable_logs, linkExists,
                 ingest_logs,
                 output>>

InstallValidateLinkedAccount ==
  /\ cmd = "install" /\ pc = "check_link"
  /\ \E r \in {"Ok", "raise"} :
       /\ Call("validate_linked_account", r)
       /\ IF r = "raise" THEN Raised
          ELSE pc' = "role" /\ term' = term
  /\ UNCHANGED <<cmd, cfg, prompts, role, install_success, update_success,
                 uninstall_integration, passed_enable_logs, linkExists,
                 ingest_logs,
                 output>>

\* Mutant: the link call is issued before the role step.
InstallCreateRole_LinkFirst ==
  /\ cmd = "install" /\ pc = "role"
  /\ \E r \in RoleVals :
       /\ calls' = calls \o <<"create_integration_account",
                              "create_integration_role">>
       /\ rets' = [rets EXCEPT !["create_integration_account"] = "True",
                               !["create_integration_role"] = r]
       /\ role' = r
       /\ pc' = "secret" /\ term' = term
  /\ UNCHANGED <<cmd, cfg, prompts, install_success, update_success,
                 uninstall_integration, passed_enable_logs, linkExists,
                 ingest_logs,
                 output>>

InstallCreateRole ==
  /\ cmd = "install" /\ pc = "role"
  /\ \E r \in RoleVals \cup {"raise"} :
       /\ Call("create_integration_role", r)
       /\ IF r = "raise" THEN Raised /\ role' = role
          ELSE pc' = "secret" /\ term' = term /\ role' = r
  /\ UNCHANGED <<cmd, cfg, prompts, install_success, update_success,
                 uninstall_integration, passed_enable_logs, linkExists,
                 ingest_logs,
                 output>>

\* Mutant: the secret is created whatever enable_license_key_secret says.
InstallLicenseKeySecret_IgnoreFlag ==
  /\ cmd = "install" /\ pc = "secret"
  /\ \E r \in RetVals \cup {"raise"} :
       /\ Call("install_license_key", r)
       /\ IF r = "raise" THEN Raised /\ install_success' = install_success
          ELSE pc' = "link" /\ term' = term /\ install_success' = "True"
  /\ UNCHANGED <<cmd, cfg, prompts, role, update_success,
                 uninstall_integration, passed_enable_logs, linkExists,
                 ingest_logs, output>>

\* The value install_license_key returns is dropped; install_success starts
\* at True after this step.
InstallLicenseKeySecret ==
  /\ cmd = "install" /\ pc = "secret"
  /\ IF cfg.enable_license_key_secret
     THEN \E r \in RetVals \cup {"raise"} :
            /\ Call("install_license_key", r)
            /\ IF r = "raise" THEN Raised /\ install_success' = install_success
               ELSE pc' = "link" /\ term' = term /\ install_success' = "True"
     ELSE /\ pc' = "link" /\ install_success' = "True"
          /\ UNCHANGED <<calls, rets, term>>
  /\ UNCHANGED <<cmd, cfg, prompts, role, update_success,
                 uninstall_integration, passed_enable_logs, linkExists,
                 ingest_logs,
                 output>>

\* Mutant: a link call that returns failure ends the run at the report.
InstallLinkAccount_AbortOnFailure ==
  /\ cmd = "install" /\ pc = "link"
  /\ IF Truthy(role)
     THEN \E r \in RetVals \cup {"raise"} :
            /\ Call("create_integration_account", r)
            /\ IF r = "raise" THEN Raised /\ install_success' = install_success
               ELSE /\ pc' = IF Truthy(r) THEN "feature" ELSE "report"
                    /\ term' = term
                    /\ install_success' = PyAnd(r, install_success)
     ELSE pc' = "ingest" /\ UNCHANGED <<calls, rets, term, install_success>>
  /\ UNCHANGED <<cmd, cfg, prompts, role, update_success,
                 uninstall_integration, passed_enable_logs, linkExists,
                 ingest_logs,
                 output>>

\* Mutant: the link call is skipped when the linked account already exists.
InstallLinkAccount_SkipExisting ==
  /\ cmd = "install" /\ pc = "link"
  /\ IF Truthy(role) /\ ~linkExists
     THEN \E r \in RetVals \cup {"raise"} :
            /\ Call("create_integration_account", r)
            /\ IF r = "raise" THEN Raised /\ install_success' = install_success
               ELSE /\ pc' = "feature" /\ term' = term
                    /\ install_success' = PyAnd(r, install_success)
     ELSE /\ pc' = IF Truthy(role) THEN "feature" ELSE "ingest"
          /\ UNCHANGED <<calls, rets, term, install_success>>
  /\ UNCHANGED <<cmd, cfg, prompts, role, update_success,
                 uninstall_integration, passed_enable_logs, linkExists,
                 ingest_logs,
                 output>>

\* Mutant: the link call is issued without looking at role.
InstallLinkAccount_IgnoreRole ==
  /\ cmd = "install" /\ pc = "link"
  /\ \E r \in RetVals \cup {"raise"} :
       /\ Call("create_integration_account", r)
       /\ IF r = "raise" THEN Raised /\ install_success' = install_success
          ELSE /\ pc' = "feature" /\ term' = term
               /\ install_success' = PyAnd(r, install_success)
  /\ UNCHANGED <<cmd, cfg, prompts, role, update_success,
                 uninstall_integration, passed_enable_logs, linkExists,
                 ingest_logs, output>>

InstallLinkAccount ==
  /\ cmd = "install" /\ pc = "link"
  /\ IF Truthy(role)
     THEN \E r \in RetVals \cup {"raise"} :
            /\ Call("create_integration_account", r)
            /\ IF r = "raise" THEN Raised /\ install_success' = install_success
               ELSE /\ pc' = "feature" /\ term' = term
                    /\ install_success' = PyAnd(r, install_success)
     ELSE pc' = "ingest" /\ UNCHANGED <<calls, rets, term, install_success>>
  /\ UNCHANGED <<cmd, cfg, prompts, role, update_success,
                 uninstall_integration, passed_enable_logs, linkExists,
                 ingest_logs,
                 output>>

\* Mutant: the result of enable_lambda_integration is dropped.
InstallEnableIntegration_Dropped ==
  /\ cmd = "install" /\ pc = "feature"
  /\ \E r \in RetVals \cup {"raise"} :
       /\ Call("enable_lambda_integration", r)
       /\ IF r = "raise" THEN Raised ELSE pc' = "ingest" /\ term' = term
  /\ UNCHANGED <<cmd, cfg, prompts, role, install_success, update_success,
                 uninstall_integration, passed_enable_logs, linkExists,
                 ingest_logs,
                 output>>

InstallEnableIntegration ==
  /\ cmd = "install" /\ pc = "feature"
  /\ \E r \in RetVals \cup {"raise"} :
       /\ Call("enable_lambda_integration", r)
       /\ IF r = "raise" THEN Raised /\ install_success' = install_success
          ELSE /\ pc' = "ingest" /\ term' = term
               /\ install_success' = PyAnd(r, install_success)
  /\ UNCHANGED <<cmd, cfg, prompts, role, update_success,
                 uninstall_integration, passed_enable_logs, linkExists,
                 ingest_logs,
                 output>>

InstallLogIngestion ==
  /\ cmd = "install" /\ pc = "ingest"
  /\ \E r \in RetVals \cup {"raise"} :
       /\ Call("install_log_ingestion", r)
       /\ passed_enable_logs' = cfg.enable_logs
       /\ ingest_logs' = LogIngestionEffect(ingest_logs, cfg.enable_logs, r)
       /\ IF r = "raise" THEN Raised /\ install_success' = install_success
          ELSE /\ pc' = "report" /\ term' = term
               /\ install_success' = PyAnd(r, install_success)
  /\ UNCHANGED <<cmd, cfg, prompts, role, update_success,
                 uninstall_integration, linkExists, output>>

\* done("Install Complete") plus the verbose hint, or failure(..., exit=True).
InstallReport ==
  /\ cmd = "install" /\ pc = "report"
  /\ IF Truthy(install_success)
     THEN /\ output' = IF cfg.VERBOSE
                       THEN <<"Install Complete", "Next steps">>
                       ELSE <<"Install Complete">>
          /\ term' = "completed"
     ELSE /\ output' = <<"Install Incomplete">>
          /\ term' = "exit1"
  /\ pc' = "exit"
  /\ UNCHANGED <<cmd, cfg, calls, rets, prompts, role, install_success,
                 update_success, uninstall_integration, passed_enable_logs,
                 linkExists, ingest_logs>>

----
\* uninstall

UninstallPermissions ==
  /\ cmd = "uninstall" /\ pc = "perm"
  /\ IF cfg.aws_permissions_check
     THEN \E r \in {"Ok", "raise"} :
            /\ Call("ensure_integration_uninstall_permissions", r)
            /\ IF r = "raise"
               THEN Raised /\ uninstall_integration' = uninstall_integration
               ELSE /\ pc' = "confirm_role" /\ term' = term
                    /\ uninstall_integration' = "True"
     ELSE /\ pc' = "confirm_role" /\ uninstall_integration' = "True"
          /\ UNCHANGED <<calls, rets, term>>
  /\ UNCHANGED <<cmd, cfg, prompts, role, install_success, update_success,
                 passed_enable_logs, linkExists, ingest_logs, output>>

\* click.confirm without abort: the answer becomes uninstall_integration.
UninstallConfirmRole ==
  /\ cmd = "uninstall" /\ pc = "confirm_role"
  /\ IF ~cfg.force /\ TruthyOpt(cfg.nr_account_id)
     THEN \E a \in BOOLEAN :
            /\ Confirm("role", a)
            /\ uninstall_integration' = IF a THEN "True" ELSE "False"
     ELSE UNCHANGED <<prompts, uninstall_integration>>
  /\ pc' = "remove_role"
  /\ UNCHANGED <<cmd, cfg, calls, rets, role, install_success, update_success,
                 passed_enable_logs, linkExists, ingest_logs, term, output>>

UninstallRemoveRole ==
  /\ cmd = "uninstall" /\ pc = "remove_role"
  /\ IF Truthy(uninstall_integration) /\ TruthyOpt(cfg.nr_account_id)
     THEN \E r \in RetVals \cup {"raise"} :
            /\ Call("remove_integration_role", r)
            /\ IF r = "raise" THEN Raised
               ELSE pc' = "confirm_fn" /\ term' = term
     ELSE pc' = "confirm_fn" /\ UNCHANGED <<calls, rets, term>>
  /\ UNCHANGED <<cmd, cfg, prompts, role, install_success, update_success,
                 uninstall_integration, passed_enable_logs, linkExists,
                 ingest_logs,
                 output>>

\* Mutant: the function prompt is shown even with force.
UninstallConfirmFunction_IgnoreForce ==
  /\ cmd = "uninstall" /\ pc = "confirm_fn"
  /\ \E a \in BOOLEAN :
       /\ Confirm("function", a)
       /\ IF a THEN pc' = "remove_fn" /\ term' = term
          ELSE pc' = "exit" /\ term' = "aborted"
  /\ UNCHANGED <<cmd, cfg, calls, rets, role, install_success, update_success,
                 uninstall_integration, passed_enable_logs, linkExists,
                 ingest_logs,
                 output>>

\* Mutant: a declined function prompt does not abort.
UninstallConfirmFunction_NoAbort ==
  /\ cmd = "uninstall" /\ pc = "confirm_fn"
  /\ IF ~cfg.force
     THEN \E a \in BOOLEAN : Confirm("function", a)
     ELSE UNCHANGED prompts
  /\ pc' = "remove_fn"
  /\ UNCHANGED <<cmd, cfg, calls, rets, role, install_success, update_success,
                 uninstall_integration, passed_enable_logs, linkExists,
                 ingest_logs,
                 term, output>>

\* click.confirm(abort=True): a declined prompt raises click.Abort.
UninstallConfirmFunction ==
  /\ cmd = "uninstall" /\ pc = "confirm_fn"
  /\ IF ~cfg.force
     THEN \E a \in BOOLEAN :
            /\ Confirm("function", a)
            /\ IF a THEN pc' = "remove_fn" /\ term' = term
               ELSE pc' = "exit" /\ term' = "aborted"
     ELSE pc' = "remove_fn" /\ UNCHANGED <<prompts, term>>
  /\ UNCHANGED <<cmd, cfg, calls, rets, role, install_success, update_success,
                 uninstall_integration, passed_enable_logs, linkExists,
                 ingest_logs,
                 output>>

UninstallRemoveFunction ==
  /\ cmd = "uninstall" /\ pc = "remove_fn"
  /\ \E r \in RetVals \cup {"raise"} :
       /\ Call("remove_log_ingestion_function", r)
       /\ IF r = "raise" THEN Raised
          ELSE pc' = "confirm_secret" /\ term' = term
  /\ UNCHANGED <<cmd, cfg, prompts, role, install_success, update_success,
                 uninstall_integration, passed_enable_logs, linkExists,
                 ingest_logs,
                 output>>

\* Mutant: a declined secret prompt skips the removal and still reports.
UninstallConfirmSecret_DeclineSkips ==
  /\ cmd = "uninstall" /\ pc = "confirm_secret"
  /\ IF ~cfg.force
     THEN \E a \in BOOLEAN :
            /\ Confirm("secret", a)
            /\ pc' = IF a THEN "remove_secret" ELSE "report"
     ELSE pc' = "remove_secret" /\ UNCHANGED prompts
  /\ UNCHANGED <<cmd, cfg, calls, rets, role, install_success, update_success,
                 uninstall_integration, passed_enable_logs, linkExists,
                 ingest_logs, term, output>>

\* Mutant: the secret is removed without asking.
UninstallConfirmSecret_NoPrompt ==
  /\ cmd = "uninstall" /\ pc = "confirm_secret"
  /\ pc' = "remove_secret"
  /\ UNCHANGED <<cmd, cfg, calls, rets, prompts, role, install_success,
                 update_success, uninstall_integration, passed_enable_logs,
                 linkExists, ingest_logs, term, output>>

UninstallConfirmSecret ==
  /\ cmd = "uninstall" /\ pc = "confirm_secret"
  /\ IF ~cfg.force
     THEN \E a \in BOOLEAN :
            /\ Confirm("secret", a)
            /\ IF a THEN pc' = "remove_secret" /\ term' = term
               ELSE pc' = "exit" /\ term' = "aborted"
     ELSE pc' = "remove_secret" /\ UNCHANGED <<prompts, term>>
  /\ UNCHANGED <<cmd, cfg, calls, rets, role, install_success, update_success,
                 uninstall_integration, passed_enable_logs, linkExists,
                 ingest_logs,
                 output>>

UninstallRemoveSecret ==
  /\ cmd = "uninstall" /\ pc = "remove_secret"
  /\ \E r \in RetVals \cup {"raise"} :
       /\ Call("remove_license_key", r)
       /\ IF r = "raise" THEN Raised
          ELSE pc' = "report" /\ term' = term
  /\ UNCHANGED <<cmd, cfg, prompts, role, install_success, update_success,
                 uninstall_integration, passed_enable_logs, linkExists,
                 ingest_logs,
                 output>>

UninstallReport ==
  /\ cmd = "uninstall" /\ pc = "report"
  /\ output' = <<"Uninstall Complete">>
  /\ term' = "completed"
  /\ pc' = "exit"
  /\ UNCHANGED <<cmd, cfg, calls, rets, prompts, role, install_success,
                 update_success, uninstall_integration, passed_enable_logs,
                 linkExists, ingest_logs>>

----
\* update

UpdatePermissions ==
  /\ cmd = "update" /\ pc = "perm"
  /\ IF cfg.aws_permissions_check
     THEN \E r \in {"Ok", "raise"} :
            /\ Call("ensure_integration_install_permissions", r)
            /\ IF r = "raise" THEN Raised /\ update_success' = update_success
               ELSE /\ pc' = "update_fn" /\ term' = term
                    /\ update_success' = "True"
     ELSE /\ pc' = "update_fn" /\ update_success' = "True"
          /\ UNCHANGED <<calls, rets, term>>
  /\ UNCHANGED <<cmd, cfg, prompts, role, install_success,
                 uninstall_integration, passed_enable_logs, linkExists,
                 ingest_logs,
                 output>>

\* Mutant: the result of update_log_ingestion is dropped.
UpdateLogIngestion_Dropped ==
  /\ cmd = "update" /\ pc = "update_fn"
  /\ \E r \in RetVals \cup {"raise"} :
       /\ Call("update_log_ingestion", r)
       /\ passed_enable_logs' = cfg.enable_logs
       /\ ingest_logs' = LogIngestionEffect(ingest_logs, cfg.enable_logs, r)
       /\ IF r = "raise" THEN Raised ELSE pc' = "secret" /\ term' = term
  /\ UNCHANGED <<cmd, cfg, prompts, role, install_success, update_success,
                 uninstall_integration, linkExists, output>>

\* Mutant: update recreates the integration role before updating.
UpdateLogIngestion_RecreateRole ==
  /\ cmd = "update" /\ pc = "update_fn"
  /\ \E r \in RetVals :
       /\ calls' = calls \o <<"create_integration_role", "update_log_ingestion">>
       /\ rets' = [rets EXCEPT !["create_integration_role"] = "Role",
                               !["update_log_ingestion"] = r]
       /\ passed_enable_logs' = cfg.enable_logs
       /\ ingest_logs' = LogIngestionEffect(ingest_logs, cfg.enable_logs, r)
       /\ pc' = "secret" /\ term' = term
       /\ update_success' = PyAnd(r, update_success)
  /\ UNCHANGED <<cmd, cfg, prompts, role, install_success,
                 uninstall_integration, linkExists, output>>

\* Mutant: an unspecified toggle is passed on as False.
UpdateLogIngestion_DefaultFalse ==
  /\ cmd = "update" /\ pc = "update_fn"
  /\ \E r \in RetVals \cup {"raise"} :
       /\ Call("update_log_ingestion", r)
       /\ passed_enable_logs' =
            (IF cfg.enable_logs = "None" THEN "False" ELSE cfg.enable_logs)
       /\ ingest_logs' = LogIngestionEffect(ingest_logs, passed_enable_logs', r)
       /\ IF r = "raise" THEN Raised /\ update_success' = update_success
          ELSE /\ pc' = "secret" /\ term' = term
               /\ update_success' = PyAnd(r, update_success)
  /\ UNCHANGED <<cmd, cfg, prompts, role, install_success,
                 uninstall_integration, linkExists, output>>

\* Mutant: an exception of update_log_ingestion is caught and counted as a
\* failed step.
UpdateLogIngestion_CatchRaise ==
  /\ cmd = "update" /\ pc = "update_fn"
  /\ \E r \in RetVals \cup {"raise"} :
       /\ Call("update_log_ingestion", r)
       /\ passed_enable_logs' = cfg.enable_logs
       /\ ingest_logs' = LogIngestionEffect(ingest_logs, cfg.enable_logs, r)
       /\ pc' = "secret" /\ term' = term
       /\ update_success' = IF r = "raise" THEN "False"
                            ELSE PyAnd(r, update_success)
  /\ UNCHANGED <<cmd, cfg, prompts, role, install_success,
                 uninstall_integration, linkExists, output>>

UpdateLogIngestion ==
  /\ cmd = "update" /\ pc = "update_fn"
  /\ \E r \in RetVals \cup {"raise"} :
       /\ Call("update_log_ingestion", r)
       /\ passed_enable_logs' = cfg.enable_logs
       /\ ingest_logs' = LogIngestionEffect(ingest_logs, cfg.enable_logs, r)
       /\ IF r = "raise" THEN Raised /\ update_success' = update_success
          ELSE /\ pc' = "secret" /\ term' = term
               /\ update_success' = PyAnd(r, update_success)
  /\ UNCHANGED <<cmd, cfg, prompts, role, install_success,
                 uninstall_integration, linkExists, output>>

\* Mutant: the secret is removed only after a successful function update.
UpdateLicenseKeySecret_ShortCircuitRemove ==
  /\ cmd = "update" /\ pc = "secret"
  /\ IF Truthy(update_success)
     THEN \E r \in RetVals \cup {"raise"} :
            /\ Call(IF cfg.enable_license_key_secret
                    THEN "auto_install_license_key"
                    ELSE "remove_license_key", r)
            /\ IF r = "raise" THEN Raised /\ update_success' = update_success
               ELSE /\ pc' = "report" /\ term' = term
                    /\ update_success' = IF cfg.enable_license_key_secret
                                         THEN r ELSE update_success
     ELSE /\ pc' = "report"
          /\ UNCHANGED <<calls, rets, term, update_success>>
  /\ UNCHANGED <<cmd, cfg, prompts, role, install_success,
                 uninstall_integration, passed_enable_logs, linkExists,
                 ingest_logs, output>>

\* `update_success and auto_install_license_key(...)` evaluates the call only
\* when update_success is truthy; the value of remove_license_key is dropped.
UpdateLicenseKeySecret ==
  /\ cmd = "update" /\ pc = "secret"
  /\ IF cfg.enable_license_key_secret
     THEN IF Truthy(update_success)
          THEN \E r \in RetVals \cup {"raise"} :
                 /\ Call("auto_install_license_key", r)
                 /\ IF r = "raise"
                    THEN Raised /\ update_success' = update_success
                    ELSE /\ pc' = "report" /\ term' = term
                         /\ update_success' = r
          ELSE /\ pc' = "report"
               /\ UNCHANGED <<calls, rets, term, update_success>>
     ELSE \E r \in RetVals \cup {"raise"} :
            /\ Call("remove_license_key", r)
            /\ update_success' = update_success
            /\ IF r = "raise" THEN Raised
               ELSE pc' = "report" /\ term' = term
  /\ UNCHANGED <<cmd, cfg, prompts, role, install_success,
                 uninstall_integration, passed_enable_logs, linkExists,
                 ingest_logs,
                 output>>

UpdateReport ==
  /\ cmd = "update" /\ pc = "report"
  /\ IF Truthy(update_success)
     THEN output' = <<"Update Complete">> /\ term' = "completed"
     ELSE output' = <<"Update Incomplete">> /\ term' = "exit1"
  /\ pc' = "exit"
  /\ UNCHANGED <<cmd, cfg, calls, rets, prompts, role, install_success,
                 update_success, uninstall_integration, passed_enable_logs,
                 linkExists, ingest_logs>>

----
Next ==
  \/ InstallPermissions
  \/ InstallValidateCredentials
  \/ InstallRetrieveLicenseKey
  \/ InstallLinkedAccountName
  \/ InstallValidateLinkedAccount
  \/ InstallCreateRole
  \/ InstallLicenseKeySecret
  \/ InstallLinkAccount
  \/ InstallEnableIntegration
  \/ InstallLogIngestion
  \/ InstallReport
  \/ UninstallPermissions
  \/ UninstallConfirmRole
  \/ UninstallRemoveRole
  \/ UninstallConfirmFunction
  \/ UninstallRemoveFunction
  \/ UninstallConfirmSecret
  \/ UninstallRemoveSecret
  \/ UninstallReport
  \/ UpdatePermissions
  \/ UpdateLogIngestion
  \/ UpdateLicenseKeySecret
  \/ UpdateReport

Spec == Init /\ [][Next]_vars

TypeOK ==
  /\ cmd \in Commands
  /\ cfg \in CfgsOf(cmd)
  /\ \A i \in 1..Len(calls) : calls[i] \in Ops
  /\ \A op \in Ops : rets[op] \in RetVals \cup RoleVals \cup {"Ok", "raise", "unset"}
  /\ role \in RoleVals \cup {"unset"}
  /\ install_success \in RetVals \cup {"unset"}
  /\ update_success \in RetVals \cup {"unset"}
  /\ uninstall_integration \in {"True", "False", "unset"}
  /\ passed_enable_logs \in {"None", "True", "False", "unset"}
  /\ term \in {"running", "completed", "exit1", "raised", "aborted"}
  /\ ingest_logs.before \in LogSettingsOf(cmd)
  /\ ingest_logs.now \in {"True", "False", "absent"}
  /\ (pc = "exit") = (term # "running")

----
\* Properties

\* The command ran to its report (no exception, no abort).
Ended == term \in {"completed", "exit1"}

\* op was called and returned a falsy value.
Failed(op) == Called(op) /\ rets[op] \in {"False", "None"}

\* The remote call issued last.
LastCall == calls[Len(calls)]

InstallSteps == {"install_license_key", "create_integration_account",
                 "enable_lambda_integration", "install_log_ingestion"}

\* C1: an install that reaches its report reports success iff every
\* attempted step among secret creation, link creation, feature enablement
\* and function creation returned success.
C1_InstallSuccessIffAttemptedSucceeded ==
  (cmd = "install" /\ Ended) =>
    ((term = "completed") <=>
       \A op \in InstallSteps : Called(op) => Truthy(rets[op]))

\* C2: in install a step that returns failure never stops the run: the run
\* ends before its report only when the last call raised, and a run that
\* reaches its report after a failed secret, link or feature step has
\* attempted every later step (link and feature when a role is available).
C2_FailureDoesNotPreventLaterSteps ==
  cmd = "install" =>
    /\ term \notin {"running", "completed", "exit1"} =>
         (calls # <<>> /\ rets[LastCall] = "raise")
    /\ (Ended /\ Failed("install_license_key")) =>
         /\ Truthy(role) => (Called("create_integration_account")
                             /\ Called("enable_lambda_integration"))
         /\ Called("install_log_ingestion")
    /\ (Ended /\ Failed("create_integration_account")) =>
         (Called("enable_lambda_integration")
          /\ Called("install_log_ingestion"))
    /\ (Ended /\ Failed("enable_lambda_integration")) =>
         Called("install_log_ingestion")

C2_Witness ==
  /\ cmd = "install" /\ Ended
  /\ Failed("install_license_key")
  /\ Failed("create_integration_account")
  /\ Failed("enable_lambda_integration")
  /\ Called("install_log_ingestion")

PastLinkStep ==
  \/ pc \in {"feature", "ingest", "report"}
  \/ Called("create_integration_account")
  \/ Called("install_log_ingestion")

C4_ForceAttemptsAllThreeRemovals ==
  (cmd = "uninstall" /\ cfg.force /\ term = "completed") =>
    /\ prompts = <<>>
    /\ Called("remove_integration_role")
    /\ Called("remove_log_ingestion_function")
    /\ Called("remove_license_key")

\* C4 amended: a forced uninstall never prompts and is never aborted; it
\* stops early only when a call raises; when it completes, function removal
\* and secret removal were attempted, and role removal was attempted exactly
\* when a non-zero account identifier was supplied.
C4_ForceNeverPromptsRoleNeedsAccount ==
  (cmd = "uninstall" /\ cfg.force) =>
    /\ prompts = <<>>
    /\ term # "aborted"
    /\ term = "raised" => (calls # <<>> /\ rets[LastCall] = "raise")
    /\ term = "completed" =>
         /\ Called("remove_log_ingestion_function")
         /\ Called("remove_license_key")
         /\ Called("remove_integration_role") <=> TruthyOpt(cfg.nr_account_id)

C4_Witness ==
  /\ cmd = "uninstall" /\ cfg.force /\ term = "completed"
  /\ Failed("remove_integration_role")
  /\ Failed("remove_log_ingestion_function")
  /\ Called("remove_license_key")

\* C5: in an uninstall without force, a declined function confirmation
\* aborts with neither the function nor the secret removed, and a declined
\* secret confirmation aborts with the secret not removed.
C5_DeclineAbortsUninstall ==
  (cmd = "uninstall" /\ ~cfg.force) =>
    /\ Declined("function") =>
         /\ term = "aborted"
         /\ ~Called("remove_log_ingestion_function")
         /\ ~Called("remove_license_key")
    /\ Declined("secret") =>
         /\ term = "aborted"
         /\ ~Called("remove_license_key")

C5_Witness ==
  /\ cmd = "uninstall" /\ ~cfg.force /\ term = "aborted"
  /\ Declined("function")
  /\ Called("remove_integration_role")

\* C6: an update with the secret feature enabled that reaches its report has
\* attempted auto_install_license_key, whatever update_log_ingestion returned.
C6_AutoInstallAlwaysAttempted ==
  (cmd = "update" /\ cfg.enable_license_key_secret /\ Ended) =>
    Called("auto_install_license_key")

\* C7 as stated: install with the secret feature disabled and no existing
\* linked account issues exactly one role, link, feature and function call,
\* no secret call, and succeeds iff all four calls succeeded.
C7_FourCallsAndSuccessIffAllFour ==
  (cmd = "install" /\ ~cfg.enable_license_key_secret /\ ~linkExists /\ Ended)
    =>
    /\ Count("create_integration_role") = 1
    /\ Count("create_integration_account") = 1
    /\ Count("enable_lambda_integration") = 1
    /\ Count("install_log_ingestion") = 1
    /\ Count("install_license_key") = 0
    /\ (term = "completed") <=>
         /\ Truthy(rets["create_integration_role"])
         /\ Truthy(rets["create_integration_account"])
         /\ Truthy(rets["enable_lambda_integration"])
         /\ Truthy(rets["install_log_ingestion"])

\* C7 amended: such a run issues exactly one role call and one function
\* call and no secret call; the link and feature calls are issued once each
\* when the role call returned a role and not at all otherwise; success is
\* reported iff the function call and the issued link and feature calls
\* succeeded (the role call's result is not part of the aggregate).
C7_CallsAndSuccessGivenRole ==
  (cmd = "install" /\ ~cfg.enable_license_key_secret /\ ~linkExists /\ Ended)
    =>
    /\ Count("create_integration_role") = 1
    /\ Count("install_log_ingestion") = 1
    /\ Count("install_license_key") = 0
    /\ Count("create_integration_account") = (IF Truthy(role) THEN 1 ELSE 0)
    /\ Count("enable_lambda_integration") = (IF Truthy(role) THEN 1 ELSE 0)
    /\ (term = "completed") <=>
         /\ Truthy(role) => (Truthy(rets["create_integration_account"])
                             /\ Truthy(rets["enable_lambda_integration"]))
         /\ Truthy(rets["install_log_ingestion"])

C7_Witness ==
  /\ cmd = "install" /\ ~cfg.enable_license_key_secret /\ ~linkExists
  /\ term = "completed"
  /\ Truthy(role)
  /\ Count("create_integration_account") = 1
  /\ Count("enable_lambda_integration") = 1

C9_RoleStepBeforeLink ==
  cmd = "install" =>
    \A i \in 1..Len(calls) :
      calls[i] = "create_integration_account" =>
        /\ \E j \in 1..(i - 1) : calls[j] = "create_integration_role"
        /\ rets["create_integration_role"] \in RoleVals

C9_Witness ==
  /\ cmd = "install"
  /\ Called("create_integration_account")
  /\ cfg.integration_arn

\* C10: when validate_gql_credentials raises in install, the run has ended
\* there and no mutating call was issued before or after it.
C10_AuthenticationErrorStopsInstall ==
  (cmd = "install" /\ rets["validate_gql_credentials"] = "raise") =>
    /\ term = "raised" /\ pc = "exit"
    /\ LastCall = "validate_gql_credentials"
    /\ \A i \in 1..Len(calls) : calls[i] \notin MutatingOps

C10_Witness ==
  /\ cmd = "install"
  /\ rets["validate_gql_credentials"] = "raise"
  /\ term = "raised"

\* C11: with the license-key-secret feature disabled, no state of an
\* install run has an install_license_key call in its history.
C11_NoSecretCallWhenDisabled ==
  (cmd = "install" /\ ~cfg.enable_license_key_secret) =>
    ~Called("install_license_key")

C11_Witness ==
  /\ cmd = "install" /\ ~cfg.enable_license_key_secret
  /\ Ended
  /\ Called("install_log_ingestion")

\* C12: an update run never issues create_integration_role,
\* create_integration_account or enable_lambda_integration.
C12_UpdateTouchesNoIdentityResource ==
  cmd = "update" =>
    /\ ~Called("create_integration_role")
    /\ ~Called("create_integration_account")
    /\ ~Called("enable_lambda_integration")

C12_Witness ==
  /\ cmd = "update" /\ Ended
  /\ Called("update_log_ingestion")
  /\ Called("auto_install_license_key")

\* The uninstall run is past its role-removal step.
PastRoleRemoval ==
  \/ pc \in {"confirm_fn", "remove_fn", "confirm_secret", "remove_secret",
             "report"}
  \/ Prompted("function")
  \/ Called("remove_integration_role")
  \/ Called("remove_log_ingestion_function")

\* C13: in uninstall, role removal is attempted iff an account identifier
\* is supplied and (force is set or the role prompt is confirmed); when it
\* is skipped the run is not aborted there and goes on to the function
\* tier.
C13_RoleRemovalIffSuppliedAndAgreed ==
  (cmd = "uninstall" /\ PastRoleRemoval) =>
    /\ Called("remove_integration_role") <=>
         (cfg.nr_account_id # None /\ (cfg.force \/ Confirmed("role")))
    /\ ~Called("remove_integration_role") =>
         (pc # "exit" \/ Prompted("function")
          \/ Called("remove_log_ingestion_function"))

\* C13 for account identifiers other than 0: the same statement with
\* "supplied" read as Python truthiness of nr_account_id.
C13_RoleRemovalIffTruthyAndAgreed ==
  (cmd = "uninstall" /\ PastRoleRemoval) =>
    /\ Called("remove_integration_role") <=>
         (TruthyOpt(cfg.nr_account_id) /\ (cfg.force \/ Confirmed("role")))
    /\ ~Called("remove_integration_role") =>
         (pc # "exit" \/ Prompted("function")
          \/ Called("remove_log_ingestion_function"))

\* C14: "Uninstall Complete" is reported only when function removal and
\* secret removal were both attempted, and never in a run where the function
\* or the secret confirmation was declined.
C14_CompletionOnlyWhenNotAborted ==
  cmd = "uninstall" =>
    /\ output # <<>> =>
         /\ output = <<"Uninstall Complete">>
         /\ Called("remove_log_ingestion_function")
         /\ Called("remove_license_key")
    /\ (Declined("function") \/ Declined("secret")) => output = <<>>

C14_Witness ==
  /\ cmd = "uninstall" /\ ~cfg.force
  /\ output = <<"Uninstall Complete">>
  /\ Declined("role")
  /\ Confirmed("function") /\ Confirmed("secret")

\* C15: when update runs with enable_logs unspecified, update_log_ingestion
\* is given None as the toggle, and the function's log-forwarding setting
\* stays what it was before the update.
C15_UnspecifiedToggleIsPreserved ==
  (cmd = "update" /\ cfg.enable_logs = "None") =>
    /\ Called("update_log_ingestion") => passed_enable_logs = "None"
    /\ ingest_logs.now = ingest_logs.before

C15_Witness ==
  /\ cmd = "update" /\ cfg.enable_logs = "None"
  /\ Called("update_log_ingestion")
  /\ rets["update_log_ingestion"] = "True"
  /\ ingest_logs.before = "True"
  /\ Ended

\* The install run is past its `if role:` block.
PastRoleBlock == pc \in {"ingest", "report"} \/ Called("install_log_ingestion")

\* Position of the first call of op in the history (0 when never called).
FirstCall(op) ==
  IF Called(op) THEN CHOOSE i \in 1..Len(calls) :
                       calls[i] = op /\ \A j \in 1..(i - 1) : calls[j] # op
  ELSE 0

\* C16: in install, link creation and feature enablement are attempted
\* exactly when the role step returned a role; link creation comes first,
\* feature enablement follows whatever value link creation returned, and
\* with no role neither call is issued.
C16_LinkAndFeatureIffRole ==
  cmd = "install" =>
    /\ ~Truthy(role) => (~Called("create_integration_account")
                         /\ ~Called("enable_lambda_integration"))
    /\ Called("enable_lambda_integration") =>
         /\ Called("create_integration_account")
         /\ FirstCall("create_integration_account")
              < FirstCall("enable_lambda_integration")
    /\ (Called("create_integration_account")
        /\ rets["create_integration_account"] # "raise"
        /\ pc # "feature") => Called("enable_lambda_integration")
    /\ (PastRoleBlock /\ Truthy(role)) =>
         (Called("create_integration_account")
          /\ Called("enable_lambda_integration"))

C16_Witness ==
  /\ cmd = "install" /\ Truthy(role)
  /\ Failed("create_integration_account")
  /\ Called("enable_lambda_integration")
  /\ PastRoleBlock

\* C17: in uninstall the removal calls occur in the order role, function,
\* secret, each at most once, and without force the function and the secret
\* are removed only after their own prompt was answered yes.
C17_RemovalOrderAndConfirmation ==
  cmd = "uninstall" =>
    /\ \A i, j \in 1..Len(calls) :
         (i < j /\ calls[i] \in MutatingOps /\ calls[j] \in MutatingOps) =>
           \/ (calls[i] = "remove_integration_role"
               /\ calls[j] = "remove_log_ingestion_function")
           \/ (calls[i] = "remove_integration_role"
               /\ calls[j] = "remove_license_key")
           \/ (calls[i] = "remove_log_ingestion_function"
               /\ calls[j] = "remove_license_key")
    /\ (~cfg.force /\ Called("remove_log_ingestion_function")) =>
         Confirmed("function")
    /\ (~cfg.force /\ Called("remove_license_key")) =>
         (Confirmed("secret") /\ Confirmed("function"))

C17_Witness ==
  /\ cmd = "uninstall" /\ ~cfg.force
  /\ Called("remove_integration_role")
  /\ Called("remove_log_ingestion_function")
  /\ Called("remove_license_key")

\* C18: in all three commands a call that raises is the last call of the
\* run: the run has ended there, nothing is reported, and no call follows
\* it (so nothing completed before is removed again).
C18_RaiseTerminatesRun ==
  /\ \A op \in Ops :
       rets[op] = "raise" =>
         /\ term = "raised" /\ pc = "exit"
         /\ LastCall = op
         /\ output = <<>>
  /\ term = "raised" => (calls # <<>> /\ rets[LastCall] = "raise")

C18_Witness ==
  /\ term = "raised"
  /\ LastCall \in {"install_log_ingestion", "auto_install_license_key",
                   "remove_license_key"}
  /\ Len(calls) > 3

PermissionOps == {"ensure_integration_install_permissions",
                  "ensure_integration_uninstall_permissions"}

\* C19: the permission pre-check is called only when it is enabled, and
\* then as the first call of the run; when it raises, the run has ended with
\* no other call and no prompt; when it is disabled it is never called.
C19_PermissionCheckFirstAndFatal ==
  /\ \A i \in 1..Len(calls) :
       calls[i] \in PermissionOps => (cfg.aws_permissions_check /\ i = 1)
  /\ (cfg.aws_permissions_check /\ calls # <<>>) => calls[1] \in PermissionOps
  /\ \A op \in PermissionOps :
       rets[op] = "raise" =>
         /\ term = "raised"
         /\ calls = <<op>>
         /\ prompts = <<>>

C19_Witness ==
  /\ cfg.aws_permissions_check
  /\ cmd = "uninstall" /\ ~cfg.force /\ TruthyOpt(cfg.nr_account_id)
  /\ rets["ensure_integration_uninstall_permissions"] = "raise"

\* C20: in update the secret toggle selects one secret action.  Disabled:
\* auto-install is never called, and a run that reaches its report has
\* called remove_license_key exactly once whatever update_log_ingestion
\* returned.  Enabled: remove_license_key is never called.  The secret
\* action always comes after the update_log_ingestion call.
C20_SecretToggleSelectsOneAction ==
  cmd = "update" =>
    /\ ~cfg.enable_license_key_secret =>
         /\ ~Called("auto_install_license_key")
         /\ Count("remove_license_key") <= 1
         /\ Ended => Count("remove_license_key") = 1
    /\ cfg.enable_license_key_secret => ~Called("remove_license_key")
    /\ \A i \in 1..Len(calls) :
         calls[i] \in {"auto_install_license_key", "remove_license_key"} =>
           \E j \in 1..(i - 1) : calls[j] = "update_log_ingestion"

C20_Witness ==
  /\ cmd = "update" /\ ~cfg.enable_license_key_secret
  /\ Ended
  /\ Failed("update_log_ingestion")
  /\ Count("remove_license_key") = 1

====
